---- MODULE Spec2Model ----
(***************************************************************************)
(* A model of the API gateway's admission controller (middleware/cors.go:  *)
(* RateLimiter) and dispatcher (handlers/proxy.go: ProxyHandler).          *)
(*                                                                         *)
(* The module holds several specifications over one set of variables:      *)
(*   SpecLocal  the in-memory token bucket, its two-level locking and the  *)
(*              reaper (allowLocal, cleanup);                              *)
(*   SpecRedis  the fixed-window counter in the shared store (allowRedis)  *)
(*              and the middleware around it;                              *)
(*   SpecProxy  the dispatcher's race between the backend call and the     *)
(*              timer (ProxyToService, ProxyToServiceWithPath);            *)
(*   SpecPath   the path rewrite (replacePathParams).                      *)
(* Each specification leaves the variables of the others at their initial  *)
(* values.                                                                 *)
(***************************************************************************)
EXTENDS Integers, Sequences, FiniteSets, TLC

VARIABLES
    \* ---- local strategy (RateLimiter, clientLimit) ----
    localLimits,  \* rl.localLimits: client id -> bucket (0: no entry)
    buckets,      \* the clientLimit objects on the heap: tokens, lastRefill
    mu,           \* rl.mu: <<>> when free, <<holder>> when held
    bmu,          \* clientLimit.mu of every bucket, likewise
    tpc,          \* where each request task stands in allowLocal
    tclient,      \* clientID of the call a task is making
    tlimit,       \* the local variable limit of allowLocal (a bucket, 0: none)
    tticks,       \* clock ticks that passed since the task entered allowLocal
    cleanupPc,    \* where the reaper stands in cleanup
    cleanupNow,   \* the reaper's local variable now
    cleanupTodo,  \* the map entries the reaper's range loop has yet to visit
    \* ---- what the callers of the local strategy have observed ----
    admits,       \* per client: allowed calls, by age in ticks, of the last minute
    spent,        \* per bucket: allowed calls charged to it, likewise
    firstBorn,    \* per client: age of its first bucket (-1: never seen)
    firstMinute,  \* per client: the calls of the first minute after that
    lastCall,     \* per client: age of its last finished call (-1: none yet)
    lastRemaining,\* per client: the remaining that call reported
    creator,      \* per task: its last call created its identity's bucket
    report,       \* what the call that finished in the last step met and returned
    \* ---- distributed strategy (allowRedis, Middleware) ----
    clock,        \* the wall clock, in ticks since the epoch
    store,        \* the shared store: key ratelimit:<client> -> count, expireAt
    rpc,          \* where each request task stands in Middleware/allowRedis
    rclient,      \* clientID of the request
    windowStart,  \* allowRedis: now.Truncate(window)
    incrVal,      \* allowRedis: incr.Val(), the count the INCR returned
    incrAge,      \* boundaries crossed since the INCR was applied (0: none)
    outcome,      \* what Middleware did with the request it handled last
    allowedNow,   \* per client: allowed calls whose INCR fell in the current window
    allowedPrev,  \* per client: likewise for the window before
    \* ---- dispatcher (ProxyHandler) ----
    version,      \* which ProxyHandler serves: over struct or over map config
    baseURL,      \* the service's configured BaseURL
    cfgTimeout,   \* the service's configured Timeout
    timeout,      \* the handler's local variable timeout
    hpc,          \* where the handler stands
    gpc,          \* where the forwarding goroutine stands ("none": not started)
    resp,         \* what the round trip to the backend returned
    togo,         \* chunks of the backend body still to copy
    done,         \* values in the channel done (capacity 1)
    timer,        \* the timer of time.After(timeout)
    writer,       \* c.Writer
    cleanTimeout, \* the timeout branch was taken with nothing sent and the
                  \* backend call still running
    servedFirst,  \* proxy.ServeHTTP returned a backend response before the
                  \* timer fired
    request,      \* c.Request, as the caller of the handler sees it: Host, Path
    finalPath,    \* the path the handler is to set for the backend ("": none)
    outreq,       \* the request the reverse proxy sent to the backend
    attempts,     \* round trips to the backend started for this request
    errorFirst,   \* the round trip failed before the timer fired
    \* ---- path rewrite (replacePathParams) ----
    template,     \* the argument path
    params,       \* c.Params
    path,         \* the local variable path
    paramIdx,     \* the range loop's position in c.Params
    pathPc,       \* where replacePathParams stands
    \* ---- front (main, NewRateLimiter, Middleware, AuthMiddleware) ----
    redisHost,    \* cfg.Redis.Host
    rateEnabled,  \* cfg.RateLimit.Enabled
    storeUp,      \* the shared store answers
    lpc,          \* "new" before NewRateLimiter, "ready" after
    useRedis,     \* rl.useRedis
    probed,       \* what the Ping of NewRateLimiter found ("none": no Ping)
    newErr,       \* NewRateLimiter returned an error
    fpc,          \* where the request stands in the handler chain
    inbound,      \* the request: token subject, X-Forwarded-For, peer, route
    claims,       \* the claims stored in the request's context
    front,        \* what the rate-limit middleware did with the request
    ran           \* the handlers that ran after the rate-limit middleware

localVars == <<localLimits, buckets, mu, bmu, tpc, tclient, tlimit, tticks,
               cleanupPc, cleanupNow, cleanupTodo>>
localHist == <<admits, spent, firstBorn, firstMinute, lastCall, lastRemaining,
               creator>>

redisVars == <<clock, store, rpc, rclient, windowStart, incrVal, incrAge,
               outcome, allowedNow, allowedPrev>>

proxyVars == <<version, baseURL, cfgTimeout, timeout, hpc, gpc, resp, togo,
               done, timer, writer, cleanTimeout, servedFirst,
               request, finalPath, outreq, attempts, errorFirst>>

reqVars == <<request, finalPath, outreq, attempts, errorFirst>>

pathVars == <<template, params, path, paramIdx, pathPc>>

frontVars == <<redisHost, rateEnabled, storeUp, lpc, useRedis, probed, newErr,
               fpc, inbound, claims, front, ran>>

vars == <<localVars, localHist, report, redisVars, proxyVars, pathVars,
          frontVars>>

-----------------------------------------------------------------------------
(* Bounds of the model. *)
NumTasks == 2          \* concurrent request tasks
RequestsPerMin == 2    \* cfg.RateLimit.RequestsPerMin (validateConfig: > 0)
MaxStall == 1          \* ticks that may pass during one allowLocal or cleanup

(* time.Minute, in clock ticks. *)
Minute == 3

(* The distributed strategy is followed over two windows. *)
MaxClock == 2 * Minute - 1

Clients == {"a"}
Tasks == 1..NumTasks
Reaper == NumTasks + 1
BucketIds == 1..(Cardinality(Clients) + NumTasks)

Min(x, y) == IF x < y THEN x ELSE y
Max(x, y) == IF x > y THEN x ELSE y

(***************************************************************************)
(* Time.  Timestamps are held as offsets from the current instant:         *)
(* time.Now() is 0, a stored timestamp is <= 0, and one tick of the clock  *)
(* lowers every stored timestamp by one.  The code compares an elapsed     *)
(* time only with time.Minute and 10*time.Minute, so a timestamp older     *)
(* than Horizon is kept at Horizon.                                        *)
(***************************************************************************)
now == 0
ReapAge == 10 * Minute
Horizon == ReapAge + 1 + MaxStall
Older(t) == Max(t - 1, 0 - Horizon)

NullBucket == [tokens |-> 0, lastRefill |-> 0]
NoWindow == [k \in 0..(Minute - 1) |-> 0]

(***************************************************************************)
(* The calls an identity completed in the minute that follows the creation *)
(* of its first bucket: all of them (calls, saturating) and the allowed    *)
(* ones (allowed), and among them those made before any refill had accrued *)
(* a token, i.e. with (now - creation) * RequestsPerMin < Minute           *)
(* (earlyCalls, earlyAllowed).                                             *)
(***************************************************************************)
NoReport == [client |-> CHOOSE c \in Clients : TRUE, allowed |-> FALSE,
             remaining |-> 0, idle |-> 0 - 1, previous |-> 0,
             refilled |-> 0 - 1, left |-> 0 - 1,
             lastRefill |-> 0, resetTime |-> 0]
NoCalls == [calls |-> 0, allowed |-> 0, earlyCalls |-> 0, earlyAllowed |-> 0]
NoAccrual(age) == age >= 0 /\ age * RequestsPerMin < Minute
Observe(m, age, ok) ==
    IF age < 0 \/ age >= Minute THEN m
    ELSE [calls |-> Min(m.calls + 1, RequestsPerMin + 2),
          allowed |-> m.allowed + (IF ok THEN 1 ELSE 0),
          earlyCalls |-> IF NoAccrual(age)
                         THEN Min(m.earlyCalls + 1, RequestsPerMin + 2)
                         ELSE m.earlyCalls,
          earlyAllowed |-> IF NoAccrual(age) /\ ok
                           THEN m.earlyAllowed + 1 ELSE m.earlyAllowed]

RECURSIVE SumTo(_, _)
SumTo(f, n) == IF n < 0 THEN 0 ELSE f[n] + SumTo(f, n - 1)
InWindow(f) == SumTo(f, Minute - 1)

Referenced(ll, tl) == {ll[c] : c \in DOMAIN ll} \cup {tl[t] : t \in Tasks}

(* A bucket no map entry and no task points to is garbage. *)
Collect(bs, ll, tl) ==
    [b \in DOMAIN bs |-> IF b \in Referenced(ll, tl) THEN bs[b] ELSE NullBucket]
CollectHist(sp, ll, tl) ==
    [b \in DOMAIN sp |-> IF b \in Referenced(ll, tl) THEN sp[b] ELSE NoWindow]

FreeBucket == CHOOSE b \in DOMAIN buckets : b \notin Referenced(localLimits, tlimit)

-----------------------------------------------------------------------------
(* allowLocal *)

\* int(elapsed.Minutes() * float64(RequestsPerMin))
TokensToAddCeil(elapsed) == (elapsed * RequestsPerMin + Minute - 1) \div Minute
TokensToAdd(elapsed) == (elapsed * RequestsPerMin) \div Minute

\* the refill step of allowLocal on bucket record l
RefillForgetful(l) ==
    LET elapsed == now - l.lastRefill IN
    IF elapsed >= Minute
    THEN [tokens |-> l.tokens, lastRefill |-> now]
    ELSE [tokens |-> Min(l.tokens + TokensToAdd(elapsed), RequestsPerMin),
          lastRefill |-> IF TokensToAdd(elapsed) > 0 THEN now ELSE l.lastRefill]
RefillNoCap(l) ==
    LET elapsed == now - l.lastRefill IN
    IF elapsed >= Minute
    THEN [tokens |-> l.tokens + RequestsPerMin, lastRefill |-> now]
    ELSE [tokens |-> l.tokens + TokensToAdd(elapsed),
          lastRefill |-> IF TokensToAdd(elapsed) > 0 THEN now ELSE l.lastRefill]
RefillKeepsStamp(l) ==
    LET elapsed == now - l.lastRefill IN
    IF elapsed >= Minute
    THEN [tokens |-> RequestsPerMin, lastRefill |-> l.lastRefill]
    ELSE [tokens |-> Min(l.tokens + TokensToAdd(elapsed), RequestsPerMin),
          lastRefill |-> l.lastRefill]
Refill(l) ==
    LET elapsed == now - l.lastRefill IN
    IF elapsed >= Minute
    THEN [tokens |-> RequestsPerMin, lastRefill |-> now]
    ELSE [tokens |-> Min(l.tokens + TokensToAdd(elapsed), RequestsPerMin),
          lastRefill |-> IF TokensToAdd(elapsed) > 0 THEN now ELSE l.lastRefill]

\* if allowed { limit.tokens-- }
SpendAlways(l) == [l EXCEPT !.tokens = l.tokens - 1]
Spend(l) == IF l.tokens > 0 THEN [l EXCEPT !.tokens = l.tokens - 1] ELSE l

\* resetTime := limit.lastRefill.Add(time.Minute)
ResetTimeFromNow(l) == now + Minute
ResetTime(l) == l.lastRefill + Minute

\* What is recorded of a run, next to the program's state: "windows", the
\* allowed calls of the last minute and of the first minute of an identity,
\* or "reports", what each finished call met and returned, or "ages", the
\* time since the last finished call of an identity, or "frames", whether a
\* call created its bucket and what it returned, or nothing.
Watch(obs, kind, new, old) == IF obs = kind THEN new ELSE old

\* a request task enters allowLocal(c): rl.mu.Lock().  Idle tasks are alike:
\* the first one serves.
Call(t, c) ==
    /\ tpc[t] = "idle"
    /\ \A u \in Tasks : u < t => tpc[u] # "idle"
    /\ mu = <<>>
    /\ mu' = <<t>>
    /\ tpc' = [tpc EXCEPT ![t] = "inMap"]
    /\ tclient' = [tclient EXCEPT ![t] = c]
    /\ creator' = [creator EXCEPT ![t] = FALSE]
    /\ UNCHANGED <<localLimits, buckets, bmu, tlimit, tticks,
                   cleanupPc, cleanupNow, cleanupTodo,
                   admits, spent, firstBorn, firstMinute, lastCall, lastRemaining>>
    /\ report' = NoReport

\* the key of identity c in rl.localLimits
MapKeyShared(c) == CHOOSE d \in DOMAIN localLimits : TRUE
MapKey(c) == c

\* limit, exists := rl.localLimits[clientID]
ExistsNever(ll, c) == FALSE
Exists(ll, c) == ll[c] # 0

\* rl.mu after the lookup of task t: rl.mu.Unlock()
MapLockKept(t) == <<t>>
MapLockAfterLookup(t) == <<>>

\* limit, exists := rl.localLimits[clientID]; create if missing; rl.mu.Unlock()
Lookup(t, obs) ==
    LET c == MapKey(tclient[t]) IN
    /\ tpc[t] = "inMap"
    /\ mu = <<t>>
    /\ IF Exists(localLimits, c)
       THEN /\ tlimit' = [tlimit EXCEPT ![t] = localLimits[c]]
            /\ UNCHANGED <<localLimits, buckets, spent, firstBorn, creator>>
       ELSE /\ tlimit' = [tlimit EXCEPT ![t] = FreeBucket]
            /\ localLimits' = [localLimits EXCEPT ![c] = FreeBucket]
            /\ buckets' = [buckets EXCEPT ![FreeBucket] =
                              [tokens |-> RequestsPerMin, lastRefill |-> now]]
            /\ spent' = [spent EXCEPT ![FreeBucket] = NoWindow]
            /\ firstBorn' = IF obs = "windows" /\ firstBorn[c] < 0
                            THEN [firstBorn EXCEPT ![c] = 0]
                            ELSE firstBorn
            /\ creator' = Watch(obs, "frames", [creator EXCEPT ![t] = TRUE], creator)
    /\ mu' = MapLockAfterLookup(t)
    /\ tpc' = [tpc EXCEPT ![t] = "wantBucket"]
    /\ UNCHANGED <<bmu, tclient, tticks, cleanupPc, cleanupNow, cleanupTodo,
                   admits, firstMinute, lastCall, lastRemaining>>
    /\ report' = NoReport

\* limit.mu.Lock()
LockBucket(t) ==
    /\ tpc[t] = "wantBucket"
    /\ bmu[tlimit[t]] = <<>>
    /\ bmu' = [bmu EXCEPT ![tlimit[t]] = <<t>>]
    /\ tpc' = [tpc EXCEPT ![t] = "inBucket"]
    /\ UNCHANGED <<localLimits, buckets, mu, tclient, tlimit, tticks,
                   cleanupPc, cleanupNow, cleanupTodo, localHist>>
    /\ report' = NoReport

\* refill, decide, limit.mu.Unlock() (deferred), return
Update(t, obs) ==
    LET b == tlimit[t]
        c == tclient[t]
        r == Refill(buckets[b])
        allowed == r.tokens > 0
        after == Spend(r)
        remaining == IF after.tokens < 0 THEN 0 ELSE after.tokens
        tl == [tlimit EXCEPT ![t] = 0]
    IN
    /\ tpc[t] = "inBucket"
    /\ bmu[b] = <<t>>
    /\ buckets' = Collect([buckets EXCEPT ![b] = after], localLimits, tl)
    /\ bmu' = [bmu EXCEPT ![b] = <<>>]
    /\ tlimit' = tl
    /\ tpc' = [tpc EXCEPT ![t] = "idle"]
    /\ admits' = IF obs = "windows" /\ allowed
                 THEN [admits EXCEPT ![c][0] = @ + 1]
                 ELSE admits
    /\ firstMinute' = Watch(obs, "windows",
                            [firstMinute EXCEPT ![c] = Observe(@, firstBorn[c], allowed)],
                            firstMinute)
    /\ lastCall' = IF obs \in {"reports", "ages"}
                   THEN [lastCall EXCEPT ![c] = 0]
                   ELSE lastCall
    /\ lastRemaining' = Watch(obs, "reports",
                              [lastRemaining EXCEPT ![c] = remaining], lastRemaining)
    /\ report' = Watch(IF obs = "frames" THEN "reports" ELSE obs, "reports",
                       [client |-> c, allowed |-> allowed, remaining |-> remaining,
                        idle |-> lastCall[c], previous |-> lastRemaining[c],
                        refilled |-> r.tokens, left |-> after.tokens,
                        lastRefill |-> after.lastRefill,
                        resetTime |-> ResetTime(after)],
                       NoReport)
    /\ spent' = CollectHist(IF obs = "windows" /\ allowed
                            THEN [spent EXCEPT ![b][0] = @ + 1]
                            ELSE spent, localLimits, tl)
    /\ tticks' = [tticks EXCEPT ![t] = 0]
    /\ UNCHANGED <<localLimits, mu, tclient, cleanupPc, cleanupNow,
                   cleanupTodo, firstBorn, creator>>

-----------------------------------------------------------------------------
(* cleanup, called by cleanupRoutine on every tick of its ticker *)

\* rl.mu.Lock(); now := time.Now(); start of the range loop
CleanupLock ==
    /\ cleanupPc = "idle"
    /\ mu = <<>>
    /\ mu' = <<Reaper>>
    /\ cleanupPc' = "scan"
    /\ cleanupNow' = now
    /\ cleanupTodo' = {c \in DOMAIN localLimits : localLimits[c] # 0}
    /\ UNCHANGED <<localLimits, buckets, bmu, tpc, tclient, tlimit, tticks,
                   localHist>>
    /\ report' = NoReport

\* now.Sub(limit.lastRefill) > 10*time.Minute
StaleAtTen(age) == age >= ReapAge
Stale(age) == age > ReapAge

\* one iteration of the range loop: limit.mu.Lock(); check; delete; Unlock()
CleanupVisit(c) ==
    LET b == localLimits[c]
        ll == IF Stale(cleanupNow - buckets[b].lastRefill)
              THEN [localLimits EXCEPT ![c] = 0]
              ELSE localLimits
    IN
    /\ cleanupPc = "scan"
    /\ c \in cleanupTodo
    /\ bmu[b] = <<>>
    /\ localLimits' = ll
    /\ buckets' = Collect(buckets, ll, tlimit)
    /\ spent' = CollectHist(spent, ll, tlimit)
    /\ cleanupTodo' = cleanupTodo \ {c}
    /\ UNCHANGED <<mu, bmu, tpc, tclient, tlimit, tticks, cleanupPc, cleanupNow,
                   admits, firstBorn, firstMinute, lastCall, lastRemaining,
                   creator>>
    /\ report' = NoReport

\* the deferred rl.mu.Unlock()
CleanupUnlock ==
    /\ cleanupPc = "scan"
    /\ cleanupTodo = {}
    /\ mu' = <<>>
    /\ cleanupPc' = "idle"
    /\ cleanupNow' = now
    /\ UNCHANGED <<localLimits, buckets, bmu, tpc, tclient, tlimit, tticks,
                   cleanupTodo, localHist>>
    /\ report' = NoReport

-----------------------------------------------------------------------------
(* The clock advances by one tick. *)

\* how long the age of an identity's last call is followed: up to the
\* reaper's age when "ages" are recorded, else up to a minute
SinceCall(obs) == IF obs = "ages" THEN ReapAge ELSE Minute

Shift(f) == [k \in 0..(Minute - 1) |-> IF k = 0 THEN 0 ELSE f[k - 1]]

Tick(obs) ==
    /\ cleanupPc = "scan" => cleanupNow > 0 - MaxStall
    /\ \A t \in Tasks : tpc[t] # "idle" => tticks[t] < MaxStall
    /\ tticks' = [t \in Tasks |-> IF tpc[t] # "idle" THEN tticks[t] + 1 ELSE 0]
    /\ buckets' = [b \in DOMAIN buckets |->
                      IF b \in Referenced(localLimits, tlimit)
                      THEN [buckets[b] EXCEPT !.lastRefill = Older(@)]
                      ELSE buckets[b]]
    /\ cleanupNow' = IF cleanupPc = "scan" THEN cleanupNow - 1 ELSE cleanupNow
    /\ admits' = [c \in DOMAIN admits |-> Shift(admits[c])]
    /\ firstMinute' = [c \in DOMAIN firstMinute |->
                          IF firstBorn[c] + 1 >= Minute THEN NoCalls
                          ELSE firstMinute[c]]
    /\ spent' = [b \in DOMAIN spent |-> Shift(spent[b])]
    /\ firstBorn' = [c \in DOMAIN firstBorn |->
                        IF firstBorn[c] < 0 THEN firstBorn[c]
                        ELSE Min(firstBorn[c] + 1, Minute)]
    /\ lastCall' = [c \in DOMAIN lastCall |->
                       IF lastCall[c] < 0 THEN lastCall[c]
                       ELSE Min(lastCall[c] + 1, SinceCall(obs))]
    /\ UNCHANGED <<localLimits, mu, bmu, tpc, tclient, tlimit,
                   cleanupPc, cleanupTodo, lastRemaining, creator>>
    /\ report' = NoReport

-----------------------------------------------------------------------------
(***************************************************************************)
(* The distributed strategy.  The shared store holds, for the key          *)
(* ratelimit:<client>, a count and an expiry (count 0: no such key,        *)
(* expireAt 0: no expiry).  INCR and EXPIREAT are the store's commands:    *)
(* INCR creates a missing key at 1 and keeps the expiry of an existing     *)
(* one; EXPIREAT with a time that is not in the future deletes the key; a  *)
(* key is gone once the clock reaches its expiry.  The two commands of one *)
(* pipeline (not a transaction) run in order, other clients' commands may  *)
(* run between them, and the pipeline reaches the store some time after    *)
(* the gateway read its clock.                                             *)
(***************************************************************************)
NoKey == [count |-> 0, expireAt |-> 0]
NoResult == [count |-> 0, remaining |-> 0, windowStart |-> 0, resetTime |-> 0]
NoOutcome == [err |-> FALSE, allowed |-> FALSE, action |-> "none", status |-> 0,
              client |-> CHOOSE c \in Clients : TRUE, result |-> NoResult]

\* windowStart := now.Truncate(window)
Truncate(t) == t - (t % Minute)

\* the store's INCR on key record k
Incr(k) == [k EXCEPT !.count = k.count + 1]

\* the store's EXPIREAT key ts, at store time t
ExpireAt(k, ts, t) == IF ts <= t THEN NoKey ELSE [k EXCEPT !.expireAt = ts]

\* the store drops the keys whose expiry has come
Expire(k, t) == IF k.expireAt # 0 /\ k.expireAt <= t THEN NoKey ELSE k

\* what Middleware does with the result of rl.allow
MiddlewareDenyOnError(allowed, err) ==
    IF ~allowed THEN "abort" ELSE "next"
MiddlewareAlwaysNext(allowed, err) == "next"
MiddlewareAction(allowed, err) ==
    IF err THEN "next" ELSE IF ~allowed THEN "abort" ELSE "next"

\* what Middleware answers: 429 when it aborts, else the next handler's answer
MiddlewareOutcome(c, allowed, err) ==
    LET action == MiddlewareAction(allowed, err) IN
    [err |-> err, allowed |-> allowed, action |-> action,
     status |-> IF action = "abort" THEN 429 ELSE 0, client |-> c,
     result |-> NoResult]

\* allowRedis: allowed, remaining and resetTime for the count the INCR returned
RedisAllowedBelow(count, limit) == count < limit
RedisAllowed(count, limit) == count <= limit
RedisResult(count, limit, ws) ==
    [count |-> count,
     remaining |-> IF limit - count < 0 THEN 0 ELSE limit - count,
     windowStart |-> ws,
     resetTime |-> ws + Minute]

InFlight(c) == Cardinality({t \in Tasks : rpc[t] = "sent" /\ rclient[t] = c})

\* the task is back in the pool
Idle(f, t) == [f EXCEPT ![t] = 0]

\* Middleware: clientID := getClientID(c); allowRedis: now, windowStart, and
\* the pipeline is put together.  Idle tasks are alike: the first one serves.
RedisCall(t, c) ==
    /\ rpc[t] = "idle"
    /\ \A u \in Tasks : u < t => rpc[u] # "idle"
    /\ store[c].count + InFlight(c) <= RequestsPerMin
    /\ rpc' = [rpc EXCEPT ![t] = "sent"]
    /\ rclient' = [rclient EXCEPT ![t] = c]
    /\ windowStart' = [windowStart EXCEPT ![t] = Truncate(clock)]
    /\ outcome' = NoOutcome
    /\ UNCHANGED <<clock, store, incrVal, incrAge, allowedNow, allowedPrev>>

\* the store runs the pipeline's INCR
RedisIncr(t) ==
    LET c == rclient[t] IN
    /\ rpc[t] = "sent"
    /\ store' = [store EXCEPT ![c] = Incr(@)]
    /\ incrVal' = [incrVal EXCEPT ![t] = store[c].count + 1]
    /\ rpc' = [rpc EXCEPT ![t] = "incremented"]
    /\ outcome' = NoOutcome
    /\ UNCHANGED <<clock, rclient, windowStart, incrAge, allowedNow, allowedPrev>>

\* the store runs the pipeline's EXPIREAT key windowStart.Add(window),
\* pipe.Exec returns no error, and the rest of allowRedis and of Middleware
RedisExpireAt(t) ==
    LET c == rclient[t]
        limit == RequestsPerMin
        count == incrVal[t]
        allowed == RedisAllowed(count, limit)
    IN
    /\ rpc[t] = "incremented"
    /\ store' = [store EXCEPT ![c] = ExpireAt(@, windowStart[t] + Minute, clock)]
    /\ outcome' = [MiddlewareOutcome(c, allowed, FALSE) EXCEPT
                      !.result = RedisResult(count, limit, windowStart[t])]
    /\ allowedNow' = IF allowed /\ incrAge[t] = 0
                     THEN [allowedNow EXCEPT ![c] = @ + 1] ELSE allowedNow
    /\ allowedPrev' = IF allowed /\ incrAge[t] = 1
                      THEN [allowedPrev EXCEPT ![c] = @ + 1] ELSE allowedPrev
    /\ rpc' = [rpc EXCEPT ![t] = "idle"]
    /\ windowStart' = Idle(windowStart, t)
    /\ incrVal' = Idle(incrVal, t)
    /\ incrAge' = Idle(incrAge, t)
    /\ UNCHANGED <<clock, rclient>>

\* pipe.Exec returned an error (the store was unreachable, or failed with
\* none, one or both commands applied): allowRedis returns
\* (false, 0, time.Time{}, err) and Middleware calls c.Next()
RedisExecError(t, applied) ==
    LET c == rclient[t] IN
    /\ rpc[t] \in {"sent", "incremented"}
    /\ applied => rpc[t] = "incremented"
    /\ store' = IF applied
                THEN [store EXCEPT ![c] = ExpireAt(@, windowStart[t] + Minute, clock)]
                ELSE store
    /\ outcome' = MiddlewareOutcome(c, FALSE, TRUE)
    /\ rpc' = [rpc EXCEPT ![t] = "idle"]
    /\ windowStart' = Idle(windowStart, t)
    /\ incrVal' = Idle(incrVal, t)
    /\ incrAge' = Idle(incrAge, t)
    /\ UNCHANGED <<clock, rclient, allowedNow, allowedPrev>>

\* the wall clock advances by one tick
RedisTick ==
    LET boundary == (clock + 1) % Minute = 0 IN
    /\ clock < MaxClock
    /\ clock' = clock + 1
    /\ store' = [c \in DOMAIN store |-> Expire(store[c], clock + 1)]
    /\ incrAge' = [t \in Tasks |->
                      IF boundary /\ rpc[t] = "incremented"
                      THEN incrAge[t] + 1 ELSE incrAge[t]]
    /\ allowedNow' = IF boundary THEN [c \in DOMAIN allowedNow |-> 0] ELSE allowedNow
    /\ allowedPrev' = IF boundary THEN allowedNow ELSE allowedPrev
    /\ outcome' = NoOutcome
    /\ UNCHANGED <<rpc, rclient, windowStart, incrVal>>

RedisUnused ==
    /\ clock = 0
    /\ store = [c \in Clients |-> NoKey]
    /\ rpc = [t \in Tasks |-> "idle"]
    /\ rclient = [t \in Tasks |-> CHOOSE c \in Clients : TRUE]
    /\ windowStart = [t \in Tasks |-> 0]
    /\ incrVal = [t \in Tasks |-> 0]
    /\ incrAge = [t \in Tasks |-> 0]
    /\ outcome = NoOutcome
    /\ allowedNow = [c \in Clients |-> 0]
    /\ allowedPrev = [c \in Clients |-> 0]

-----------------------------------------------------------------------------
(***************************************************************************)
(* The dispatcher: one inbound request through ProxyToService (either      *)
(* version of the handler) or ProxyToServiceWithPath.  The handler and the *)
(* forwarding goroutine share c.Writer, gin's responseWriter:              *)
(*   WriteHeader(code) only records the status, and is ignored once the    *)
(*                     header has been sent;                               *)
(*   Write(data)       sends the header with the recorded status if it has *)
(*                     not been sent, then the data;                       *)
(*   Written()         tells whether the header has been sent.             *)
(* The body is kept as the sequence of the chunks sent, each named after   *)
(* what wrote it.                                                          *)
(***************************************************************************)
MaxBodyChunks == 2     \* Write calls that copy one backend response body

(* return 30 * time.Second, in seconds. *)
DefaultTimeout == 30

Versions == {"struct", "map"}  \* the handler over struct config, over map config
BaseURLs == {"absent", "empty", "unparsable", "ok"}
Timeouts == {0 - 1, 0, 1}
BackendStatuses == {200, 204}

NewWriter == [status |-> 200, written |-> FALSE, sent |-> 0,
              header |-> {}, sentHeader |-> {}, body |-> <<>>]
NoResponse == [kind |-> "none", status |-> 0, chunks |-> 0]
Responses ==
    [kind : {"response"}, status : BackendStatuses, chunks : 0..MaxBodyChunks]
    \cup {[kind |-> "error", status |-> 0, chunks |-> 0]}

\* url.Parse(baseURL): the empty string parses
UrlParseFails(u) == u = "unparsable"

\* initProxies: is there an entry p.proxies[serviceName]
HasProxy(v, u) ==
    /\ u # "absent"
    /\ v = "map" => u # "empty"
    /\ ~UrlParseFails(u)

\* getServiceTimeout, for a configured service
getServiceTimeout(v, t) ==
    IF v = "struct" THEN t
    ELSE IF t > 0 THEN t ELSE DefaultTimeout

\* gin's responseWriter
Written(w) == w.written
WriteHeader(w, code) ==
    IF code # w.status /\ Written(w) THEN w ELSE [w EXCEPT !.status = code]
WriteHeaderNow(w) ==
    IF Written(w) THEN w
    ELSE [w EXCEPT !.written = TRUE, !.sent = w.status, !.sentHeader = w.header]
Write(w, chunk) == [WriteHeaderNow(w) EXCEPT !.body = Append(@, chunk)]
SetHeader(w, origin) == [w EXCEPT !.header = @ \cup {origin}]

\* a write through c.Writer after the handler returned uses a writer that
\* net/http has released: it may or may not reach the caller
Lands(landed) == hpc # "returned" => landed

\* gin's ServeHTTP after the handler: c.writermem.WriteHeaderNow()
HandlerReturns(w) == WriteHeaderNow(w)

\* the caller-visible request: the host the client addressed and the path
Hosts == {"gateway.example", "backend.internal"}
InboundPath == "/api/v1/users/7"
FinalPaths == {"", InboundPath, "/users/7"}
NoRequest == [Host |-> "", Path |-> "", XForwardedHost |-> "", XOriginHost |-> ""]

\* url.Parse(baseURL).Host
TargetHost(u) == IF u = "ok" THEN "backend.internal" ELSE ""

\* c.Request.URL.Path after the handler's assignment: the struct handler and
\* ProxyToServiceWithPath set finalPath, ProxyToService sets the path
\* parameter when there is one
RequestPath(v, p, final) ==
    IF v = "struct" THEN final
    ELSE IF final # "" THEN final ELSE p

\* ReverseProxy.ServeHTTP: outreq := req.Clone(ctx)
Clone(req) ==
    [Host |-> req.Host, Path |-> req.Path, XForwardedHost |-> "", XOriginHost |-> ""]

\* modifyRequest, on the clone
modifyRequest(req, target) ==
    LET hosted == [req EXCEPT !.Host = target] IN
    [hosted EXCEPT !.XForwardedHost = hosted.Host, !.XOriginHost = target]

\* where proxy.ServeHTTP goes after the round trip
AfterRoundTripRetry(r) == IF r.kind = "error" THEN "roundtrip" ELSE "copyHeader"
AfterRoundTrip(r) == IF r.kind = "error" THEN "errorHead" ELSE "copyHeader"

\* the handler up to the select: the lookup in p.proxies, the 500, or the
\* timeout, the done channel and the go statement
Dispatch ==
    /\ hpc = "start"
    /\ IF ~HasProxy(version, baseURL)
       THEN /\ writer' = HandlerReturns(Write(WriteHeader(SetHeader(writer, "gateway"), 500), "gw500"))
            /\ hpc' = "returned"
            /\ UNCHANGED <<gpc, timeout, request>>
       ELSE /\ request' = [request EXCEPT
                              !.Path = RequestPath(version, request.Path, finalPath)]
            /\ timeout' = getServiceTimeout(version, cfgTimeout)
            /\ gpc' = "roundtrip"
            /\ hpc' = "started"
            /\ UNCHANGED writer
    /\ UNCHANGED <<version, baseURL, cfgTimeout, resp, togo, done, timer,
                   cleanTimeout, servedFirst, finalPath, outreq, attempts,
                   errorFirst>>

\* the handler reaches the select: time.After(timeout) is armed and the
\* cases are polled; a timer of no duration is ready at once
EnterSelect ==
    /\ hpc = "started"
    /\ \E branch \in {"done", "timeout", "block"} :
          /\ branch = "done" => done = 1
          /\ branch = "timeout" => timeout <= 0
          /\ branch = "block" => done = 0 /\ timeout > 0
          /\ hpc' = CASE branch = "done" -> "doneBranch"
                      [] branch = "timeout" -> "timeoutBranch"
                      [] OTHER -> "select"
          /\ timer' = IF timeout <= 0 THEN "fired" ELSE "armed"
          /\ cleanTimeout' = (branch = "timeout" /\ ~Written(writer)
                                /\ gpc \notin {"served", "finished"})
    /\ UNCHANGED <<reqVars, version, baseURL, cfgTimeout, timeout, gpc, resp, togo, done,
                   writer, servedFirst>>

\* the timer fires while the handler waits in the select
TimerFire ==
    /\ hpc = "select"
    /\ timer = "armed"
    /\ timer' = "fired"
    /\ hpc' = "timeoutBranch"
    /\ cleanTimeout' = (~Written(writer) /\ gpc \notin {"served", "finished"})
    /\ UNCHANGED <<reqVars, version, baseURL, cfgTimeout, timeout, gpc, resp, togo, done,
                   writer, servedFirst>>

\* case <-done: the handler returns
TakeDone ==
    /\ hpc = "doneBranch"
    /\ hpc' = "returned"
    /\ writer' = HandlerReturns(writer)
    /\ UNCHANGED <<reqVars, version, baseURL, cfgTimeout, timeout, gpc, resp, togo, done,
                   timer, cleanTimeout, servedFirst>>

\* case <-time.After(timeout): if !c.Writer.Written()
CheckWritten ==
    /\ hpc = "timeoutBranch"
    /\ IF Written(writer)
       THEN /\ hpc' = "returned"
            /\ writer' = HandlerReturns(writer)
       ELSE /\ hpc' = "status504"
            /\ UNCHANGED writer
    /\ UNCHANGED <<reqVars, version, baseURL, cfgTimeout, timeout, gpc, resp, togo, done,
                   timer, cleanTimeout, servedFirst>>

\* c.JSON(http.StatusGatewayTimeout, ...): c.Status(code)
Json504Status ==
    /\ hpc = "status504"
    /\ hpc' = "body504"
    /\ writer' = WriteHeader(writer, 504)
    /\ UNCHANGED <<reqVars, version, baseURL, cfgTimeout, timeout, gpc, resp, togo, done,
                   timer, cleanTimeout, servedFirst>>

\* c.JSON(http.StatusGatewayTimeout, ...): the content type and the body;
\* the handler returns
Json504Body ==
    /\ hpc = "body504"
    /\ hpc' = "returned"
    /\ writer' = HandlerReturns(Write(SetHeader(writer, "gateway"), "gw504"))
    /\ UNCHANGED <<reqVars, version, baseURL, cfgTimeout, timeout, gpc, resp, togo, done,
                   timer, cleanTimeout, servedFirst>>

\* proxy.ServeHTTP: the inbound request is cloned, the director rewrites the
\* clone, and the round trip to the backend ends, with a response or with a
\* transport error (the only end when the target has no scheme)
BackendRespond(r) ==
    /\ gpc = "roundtrip"
    /\ baseURL = "empty" => r.kind = "error"
    /\ outreq' = modifyRequest(Clone(request), TargetHost(baseURL))
    /\ attempts' = attempts + 1
    /\ errorFirst' = (r.kind = "error" /\ timer # "fired")
    /\ resp' = r
    /\ togo' = r.chunks
    /\ gpc' = AfterRoundTrip(r)
    /\ UNCHANGED <<version, baseURL, cfgTimeout, timeout, hpc, done, timer,
                   writer, cleanTimeout, servedFirst, request, finalPath>>

\* proxy.ServeHTTP: copyHeader(rw.Header(), res.Header)
CopyHeader ==
    /\ gpc = "copyHeader"
    /\ gpc' = "writeHeader"
    /\ writer' = SetHeader(writer, "backend")
    /\ UNCHANGED <<reqVars, version, baseURL, cfgTimeout, timeout, hpc, resp, togo, done,
                   timer, cleanTimeout, servedFirst>>

\* proxy.ServeHTTP: rw.WriteHeader(res.StatusCode)
WriteStatus ==
    /\ gpc = "writeHeader"
    /\ gpc' = "copyBody"
    /\ writer' = WriteHeader(writer, resp.status)
    /\ UNCHANGED <<reqVars, version, baseURL, cfgTimeout, timeout, hpc, resp, togo, done,
                   timer, cleanTimeout, servedFirst>>

\* proxy.ServeHTTP: copyResponse writes one more chunk of the body
WriteBody(landed) ==
    /\ gpc = "copyBody"
    /\ togo > 0
    /\ Lands(landed)
    /\ togo' = togo - 1
    /\ writer' = IF landed THEN Write(writer, "backend") ELSE writer
    /\ UNCHANGED <<reqVars, version, baseURL, cfgTimeout, timeout, hpc, gpc, resp, done,
                   timer, cleanTimeout, servedFirst>>

\* errorHandler: the content type and w.WriteHeader(http.StatusBadGateway)
ErrorHandlerHead ==
    /\ gpc = "errorHead"
    /\ gpc' = "errorBody"
    /\ writer' = WriteHeader(SetHeader(writer, "gateway"), 502)
    /\ UNCHANGED <<reqVars, version, baseURL, cfgTimeout, timeout, hpc, resp, togo, done,
                   timer, cleanTimeout, servedFirst>>

\* errorHandler: w.Write(response); proxy.ServeHTTP returns
ErrorHandlerBody(landed) ==
    /\ gpc = "errorBody"
    /\ Lands(landed)
    /\ gpc' = "served"
    /\ writer' = IF landed THEN Write(writer, "gw502") ELSE writer
    /\ servedFirst' = FALSE
    /\ UNCHANGED <<reqVars, version, baseURL, cfgTimeout, timeout, hpc, resp, togo, done,
                   timer, cleanTimeout>>

\* proxy.ServeHTTP returns after the whole body was copied
ServeReturn ==
    /\ gpc = "copyBody"
    /\ togo = 0
    /\ gpc' = "served"
    /\ servedFirst' = (timer # "fired")
    /\ UNCHANGED <<reqVars, version, baseURL, cfgTimeout, timeout, hpc, resp, togo, done,
                   timer, writer, cleanTimeout>>

\* make(chan bool, 1): the buffer of the channel done
DoneCap == 1

\* a send goes through when the buffer has room or a receiver waits
SendReadyUnbuffered(sent, receiving) == receiving
SendReady(sent, receiving) == sent < DoneCap \/ receiving

\* done <- true: the channel has room for one value; a handler that waits
\* in the select takes it
DoneSend ==
    /\ gpc = "served"
    /\ SendReady(done, hpc = "select")
    /\ gpc' = "finished"
    /\ done' = 1
    /\ hpc' = IF hpc = "select" THEN "doneBranch" ELSE hpc
    /\ UNCHANGED <<reqVars, version, baseURL, cfgTimeout, timeout, resp, togo, timer,
                   writer, cleanTimeout, servedFirst>>

ProxyIdle ==
    /\ hpc = "start"
    /\ gpc = "none"
    /\ timeout = 0
    /\ resp = NoResponse
    /\ togo = 0
    /\ done = 0
    /\ timer = "unarmed"
    /\ writer = NewWriter
    /\ cleanTimeout = FALSE
    /\ servedFirst = FALSE
    /\ outreq = NoRequest
    /\ attempts = 0
    /\ errorFirst = FALSE

ProxyUnused ==
    /\ version = "map"
    /\ baseURL = "ok"
    /\ cfgTimeout = 1
    /\ request = [Host |-> "gateway.example", Path |-> InboundPath]
    /\ finalPath = ""
    /\ ProxyIdle

-----------------------------------------------------------------------------
(***************************************************************************)
(* The path rewrite.  A string is the sequence of its characters; c.Params *)
(* is the sequence of the captured parameters, each a key and a value.     *)
(***************************************************************************)
MaxPathLen == 3        \* characters of a path template

NameChars == {"a", "b"}
PathChars == {":", "/"} \cup NameChars
Keys == {<<"a">>, <<"a", "b">>}
Values == {<<"7">>, <<":", "a">>}

Strings(chars, n) == UNION {[1..k -> chars] : k \in 0..n}
Templates == Strings(PathChars, MaxPathLen)
ParamLists ==
    {<<>>}
    \cup {<<[Key |-> k, Value |-> v]>> : k \in Keys, v \in Values}
    \cup {<<[Key |-> kk[1], Value |-> vv[1]], [Key |-> kk[2], Value |-> vv[2]]>> :
            kk \in {x \in Keys \X Keys : x[1] # x[2]}, vv \in Values \X Values}

HasPrefix(s, prefix) ==
    Len(s) >= Len(prefix) /\ SubSeq(s, 1, Len(prefix)) = prefix

\* strings.ReplaceAll(s, old, new) for a non-empty old: the non-overlapping
\* instances of old, from the left
RECURSIVE ReplaceAll(_, _, _)
ReplaceAll(s, old, new) ==
    IF s = <<>> THEN <<>>
    ELSE IF HasPrefix(s, old)
         THEN new \o ReplaceAll(SubSeq(s, Len(old) + 1, Len(s)), old, new)
         ELSE <<Head(s)>> \o ReplaceAll(Tail(s), old, new)

\* one turn of the loop of replacePathParams
ReplaceParam(p, param) == ReplaceAll(p, <<":">> \o param.Key, param.Value)

\* replacePathParams: the loop body for the next parameter of c.Params
ReplaceStep ==
    /\ pathPc = "loop"
    /\ paramIdx <= Len(params)
    /\ path' = ReplaceParam(path, params[paramIdx])
    /\ paramIdx' = paramIdx + 1
    /\ UNCHANGED <<template, params, pathPc>>

\* replacePathParams: return path
ReplaceReturn ==
    /\ pathPc = "loop"
    /\ paramIdx > Len(params)
    /\ pathPc' = "returned"
    /\ UNCHANGED <<template, params, path, paramIdx>>

PathIdle ==
    /\ path = template
    /\ paramIdx = 1
    /\ pathPc = "loop"

PathUnused ==
    /\ template = <<>>
    /\ params = <<>>
    /\ PathIdle

-----------------------------------------------------------------------------
(***************************************************************************)
(* The front: main builds the limiter once with NewRateLimiter and puts    *)
(* its Middleware on the router before SetupRoutes, so a request passes    *)
(* the rate-limit middleware first, then the AuthMiddleware of its route   *)
(* group if it has one, then the route's handler.  What the strategy       *)
(* answers is an input here; the strategies are followed in SpecLocal and  *)
(* SpecRedis.  A string is the sequence of its characters.                 *)
(***************************************************************************)
NoUser == <<"-">>                  \* no valid token on the request
Users == {<<>>, <<"a">>}           \* Claims.UserID of a valid token
Addrs == {<<"a">>, <<"b">>}        \* network addresses

\* The Authorization header as sent.  GoodToken is the token string the
\* client holds; whether it validates, and to which claims, is the request's
\* user (NoUser: bad signature, expired, ...) and roles.
Bearer == <<"B", "e", "a", "r", "e", "r">>
bearer == <<"b", "e", "a", "r", "e", "r">>
Basic == <<"B", "a", "s", "i", "c">>
GoodToken == <<"t">>
AuthHeaders ==
    {<<>>, Bearer, Bearer \o <<" ">> \o GoodToken, bearer \o <<" ">> \o GoodToken,
     Basic \o <<" ">> \o GoodToken, Bearer \o <<" ", " ">> \o GoodToken}
RoleSets == {{}, {"user"}, {"admin"}, {"system_admin"}}

\* SetupRoutes: the routes, the handler of each, and the middleware of its
\* group.  "public" is a ProxyWebUI route, "protected" a route of a service
\* group, "admin" /api/v1/admin/users, "adminMap" /api/v1/admin/system/status
\* of the map-based configuration version.
HealthRoutes == {"health", "ready", "live", "status"}
Routes == HealthRoutes \cup {"public", "protected", "admin", "adminMap"}
Handler(route) ==
    CASE route = "health" -> "Health"
      [] route = "ready" -> "Ready"
      [] route = "live" -> "Live"
      [] route = "status" -> "Status"
      [] route = "adminMap" -> "SystemStatus"
      [] OTHER -> "dispatcher"
UsesAuth(route) == route \in {"protected", "admin", "adminMap"}
NoRoles == {}
RequiredRoles(route) ==
    CASE route = "admin" -> {"admin", "system_admin"}
      [] route = "adminMap" -> {"admin"}
      [] OTHER -> NoRoles

\* The requests followed: the Authorization header and what its token
\* validates to vary on the routes that read them, the roles of the claims
\* on the routes that require roles.
Requests ==
    {r \in [user : Users \cup {NoUser}, xff : Addrs \cup {<<>>},
            peer : {<<>>, <<"a">>}, route : Routes, auth : AuthHeaders,
            roles : RoleSets] :
        /\ ~UsesAuth(r.route) => r.auth = <<>> /\ r.user = NoUser
        /\ (RequiredRoles(r.route) = NoRoles \/ r.user = NoUser) => r.roles = {}}

UserPrefix == <<"u", "s", "e", "r", ":">>
IpPrefix == <<"i", "p", ":">>
RateLimitHeaders == {"X-RateLimit-Limit", "X-RateLimit-Remaining", "X-RateLimit-Reset"}

NoBody == [service |-> "", status |-> "", version |-> ""]
NoFront == [strategy |-> "none", clientID |-> <<>>, err |-> FALSE,
            allowed |-> FALSE, action |-> "none", status |-> 0, headers |-> {},
            body |-> NoBody]

\* the JSON the health handlers write (timestamp and uptime left out)
HealthBody(h) ==
    CASE h = "Health" -> [NoBody EXCEPT !.status = "healthy"]
      [] h = "Ready" -> [NoBody EXCEPT !.status = "ready"]
      [] h = "Live" -> [NoBody EXCEPT !.status = "alive"]
      [] h = "Status" -> [service |-> "api-gateway", status |-> "healthy",
                          version |-> "1.0.0"]
      [] OTHER -> NoBody

\* NewRateLimiter: rl.useRedis after the probe
SelectRedisUnprobed(host, up) == host # ""
SelectRedis(host, up) == host # "" /\ up

\* getClientID: cl is what GetUserFromContext finds in the context
getClientID(cl, r) ==
    IF cl # NoUser THEN UserPrefix \o cl
    ELSE IF r.xff # <<>> THEN IpPrefix \o r.xff
    ELSE IpPrefix \o r.peer

\* NewRateLimiter
NewRateLimiter ==
    /\ lpc = "new"
    /\ lpc' = "ready"
    /\ useRedis' = SelectRedis(redisHost, storeUp)
    /\ probed' = IF redisHost = "" THEN "none"
                 ELSE IF storeUp THEN "up" ELSE "down"
    /\ newErr' = FALSE
    /\ UNCHANGED <<redisHost, rateEnabled, storeUp, fpc, inbound, claims, front, ran>>

\* the store goes down or comes back
StoreFlip ==
    /\ storeUp' = ~storeUp
    /\ UNCHANGED <<redisHost, rateEnabled, lpc, useRedis, probed, newErr,
                   fpc, inbound, claims, front, ran>>

\* a request enters the router
Arrive(r) ==
    /\ lpc = "ready"
    /\ fpc = "idle"
    /\ fpc' = "limit"
    /\ inbound' = r
    /\ claims' = NoUser
    /\ front' = NoFront
    /\ ran' = {}
    /\ UNCHANGED <<redisHost, rateEnabled, storeUp, lpc, useRedis, probed, newErr>>

\* RateLimiter.Middleware, with rl.allow answering allowed (an error when the
\* store is down under the distributed strategy)
Middleware(answer) ==
    LET clientID == getClientID(claims, inbound)
        err == useRedis /\ ~storeUp
        allowed == ~err /\ answer
        action == MiddlewareAction(allowed, err)
    IN
    /\ fpc = "limit"
    /\ IF ~rateEnabled
       THEN /\ front' = [NoFront EXCEPT !.strategy = "off", !.action = "next"]
            /\ fpc' = "auth"
       ELSE /\ front' = [strategy |-> IF useRedis THEN "redis" ELSE "local",
                         clientID |-> clientID,
                         err |-> err,
                         allowed |-> allowed,
                         action |-> action,
                         status |-> IF action = "abort" THEN 429 ELSE 0,
                         headers |-> IF err THEN {}
                                     ELSE IF allowed THEN RateLimitHeaders
                                     ELSE RateLimitHeaders \cup {"Retry-After"},
                         body |-> NoBody]
            /\ fpc' = IF action = "abort" THEN "done" ELSE "auth"
    /\ UNCHANGED <<redisHost, rateEnabled, storeUp, lpc, useRedis, probed, newErr,
                   inbound, claims, ran>>

\* strings.SplitN(s, " ", 2)
RECURSIVE IndexOfSpace(_, _)
IndexOfSpace(s, i) ==
    IF i > Len(s) THEN 0 ELSE IF s[i] = " " THEN i ELSE IndexOfSpace(s, i + 1)
SplitN2(s) ==
    LET i == IndexOfSpace(s, 1) IN
    IF i = 0 THEN <<s>> ELSE <<SubSeq(s, 1, i - 1), SubSeq(s, i + 1, Len(s))>>

\* strings.EqualFold on the letters used here
Lower(ch) == IF ch = "B" THEN "b" ELSE ch
EqualExact(s, t) == s = t
EqualFold(s, t) ==
    /\ Len(s) = Len(t)
    /\ \A i \in 1..Len(s) : Lower(s[i]) = Lower(t[i])

\* extractToken: <<ok, token>>
extractTokenAnyScheme(h) ==
    LET parts == SplitN2(h) IN
    IF h = <<>> \/ Len(parts) # 2 THEN <<FALSE, <<>>>> ELSE <<TRUE, parts[2]>>
extractToken(h) ==
    LET parts == SplitN2(h) IN
    IF h = <<>> THEN <<FALSE, <<>>>>
    ELSE IF Len(parts) # 2 \/ ~EqualFold(parts[1], Bearer) THEN <<FALSE, <<>>>>
    ELSE <<TRUE, parts[2]>>

\* validateToken: the UserID of the claims, NoUser when the token string does
\* not validate
validateToken(tok, r) == IF tok = GoodToken THEN r.user ELSE NoUser

\* the request carries a token AuthMiddleware accepts
Authenticates(r) ==
    /\ extractToken(r.auth)[1]
    /\ validateToken(extractToken(r.auth)[2], r) # NoUser

\* AuthMiddleware on the routes of a group that uses it: 401 and abort, or the
\* claims are stored in the context; other routes have none
AuthMiddleware ==
    LET tok == extractToken(inbound.auth)
        cl == IF tok[1] THEN validateToken(tok[2], inbound) ELSE NoUser
    IN
    /\ fpc = "auth"
    /\ IF ~UsesAuth(inbound.route)
       THEN /\ fpc' = "roles"
            /\ UNCHANGED <<claims, ran, front>>
       ELSE /\ ran' = ran \cup {"auth"}
            /\ IF cl = NoUser
               THEN /\ fpc' = "done"
                    /\ front' = [front EXCEPT !.status = 401]
                    /\ UNCHANGED claims
               ELSE /\ fpc' = "roles"
                    /\ claims' = cl
                    /\ UNCHANGED front
    /\ UNCHANGED <<redisHost, rateEnabled, storeUp, lpc, useRedis, probed, newErr,
                   inbound>>

\* RequireRoles(roles...) on the admin group: 401 without stored claims, 403
\* without one of the roles; other routes have none
HasRoleAll(have, required) == required \subseteq have
HasRole(have, required) == have \cap required # {}
\* what RequireRoles(required...) answers for the stored claims cl with roles
\* have: a status and Abort, or 0 for c.Next()
RolesDecision(cl, have, required) ==
    IF cl = NoUser THEN 401
    ELSE IF ~HasRole(have, required) THEN 403
    ELSE 0

RequireRoles ==
    LET status == RolesDecision(claims, inbound.roles, RequiredRoles(inbound.route)) IN
    /\ fpc = "roles"
    /\ IF RequiredRoles(inbound.route) = NoRoles
       THEN /\ fpc' = "handler"
            /\ UNCHANGED <<ran, front>>
       ELSE /\ ran' = ran \cup {"roles"}
            /\ IF status # 0
               THEN /\ fpc' = "done"
                    /\ front' = [front EXCEPT !.status = status]
               ELSE /\ fpc' = "handler"
                    /\ UNCHANGED front
    /\ UNCHANGED <<redisHost, rateEnabled, storeUp, lpc, useRedis, probed, newErr,
                   inbound, claims>>

\* the route's handler: a health handler answers 200 with its JSON, the
\* others are the dispatcher (its answer is followed in SpecProxy)
RouteHandler ==
    LET h == Handler(inbound.route) IN
    /\ fpc = "handler"
    /\ fpc' = "done"
    /\ ran' = ran \cup {h}
    /\ front' = IF h = "dispatcher" THEN front
                ELSE [front EXCEPT !.status = 200, !.body = HealthBody(h)]
    /\ UNCHANGED <<redisHost, rateEnabled, storeUp, lpc, useRedis, probed, newErr,
                   inbound, claims>>

NoInbound == [user |-> NoUser, xff |-> <<>>, peer |-> <<>>, route |-> "public",
              auth |-> <<>>, roles |-> {}]

\* the request is over: the answer is sent and the context is released
Respond ==
    /\ fpc = "done"
    /\ fpc' = "idle"
    /\ inbound' = NoInbound
    /\ claims' = NoUser
    /\ front' = NoFront
    /\ ran' = {}
    /\ UNCHANGED <<redisHost, rateEnabled, storeUp, lpc, useRedis, probed, newErr>>

FrontIdle ==
    /\ lpc = "new"
    /\ useRedis = FALSE
    /\ probed = "none"
    /\ newErr = FALSE
    /\ fpc = "idle"
    /\ inbound = NoInbound
    /\ claims = NoUser
    /\ front = NoFront
    /\ ran = {}

FrontUnused ==
    /\ redisHost = ""
    /\ rateEnabled = TRUE
    /\ storeUp = FALSE
    /\ FrontIdle

-----------------------------------------------------------------------------
LocalUnused ==
    /\ localLimits = [c \in Clients |-> 0]
    /\ buckets = [b \in BucketIds |-> NullBucket]
    /\ mu = <<>>
    /\ bmu = [b \in BucketIds |-> <<>>]
    /\ tpc = [t \in Tasks |-> "idle"]
    /\ tclient = [t \in Tasks |-> CHOOSE c \in Clients : TRUE]
    /\ tlimit = [t \in Tasks |-> 0]
    /\ tticks = [t \in Tasks |-> 0]
    /\ cleanupPc = "idle"
    /\ cleanupNow = now
    /\ cleanupTodo = {}
    /\ admits = [c \in Clients |-> NoWindow]
    /\ spent = [b \in BucketIds |-> NoWindow]
    /\ firstBorn = [c \in Clients |-> 0 - 1]
    /\ firstMinute = [c \in Clients |-> NoCalls]
    /\ lastCall = [c \in Clients |-> 0 - 1]
    /\ lastRemaining = [c \in Clients |-> 0]
    /\ creator = [t \in Tasks |-> FALSE]
    /\ report = NoReport

InitLocal ==
    LocalUnused /\ RedisUnused /\ ProxyUnused /\ PathUnused /\ FrontUnused

NextWatched(obs) ==
    /\ \/ \E t \in Tasks, c \in Clients : Call(t, c)
       \/ \E t \in Tasks : Lookup(t, obs)
       \/ \E t \in Tasks : LockBucket(t)
       \/ \E t \in Tasks : Update(t, obs)
       \/ CleanupLock
       \/ \E c \in Clients : CleanupVisit(c)
       \/ CleanupUnlock
       \/ Tick(obs)
    /\ UNCHANGED <<redisVars, proxyVars, pathVars, frontVars>>

NextLocal == NextWatched("windows")

SpecLocal == InitLocal /\ [][NextLocal]_vars

NextReport == NextWatched("reports")

SpecReport == InitLocal /\ [][NextReport]_vars

InitRedis ==
    LocalUnused /\ RedisUnused /\ ProxyUnused /\ PathUnused /\ FrontUnused

NextRedis ==
    /\ \/ \E t \in Tasks, c \in Clients : RedisCall(t, c)
       \/ \E t \in Tasks : RedisIncr(t)
       \/ \E t \in Tasks : RedisExpireAt(t)
       \/ \E t \in Tasks, applied \in BOOLEAN : RedisExecError(t, applied)
       \/ RedisTick
    /\ UNCHANGED <<localVars, localHist, report, proxyVars, pathVars, frontVars>>

SpecRedis == InitRedis /\ [][NextRedis]_vars

InitProxy ==
    /\ LocalUnused /\ RedisUnused /\ PathUnused /\ FrontUnused
    /\ version \in Versions
    /\ baseURL \in BaseURLs
    /\ cfgTimeout \in Timeouts
    /\ request \in [Host : Hosts, Path : {InboundPath}]
    /\ finalPath \in FinalPaths
    /\ ProxyIdle

NextProxy ==
    /\ \/ Dispatch
       \/ EnterSelect
       \/ TimerFire
       \/ TakeDone
       \/ CheckWritten
       \/ Json504Status
       \/ Json504Body
       \/ \E r \in Responses : BackendRespond(r)
       \/ CopyHeader
       \/ WriteStatus
       \/ \E landed \in BOOLEAN : WriteBody(landed)
       \/ ErrorHandlerHead
       \/ \E landed \in BOOLEAN : ErrorHandlerBody(landed)
       \/ ServeReturn
       \/ DoneSend
    /\ UNCHANGED <<localVars, localHist, report, redisVars, pathVars, frontVars>>

SpecProxy == InitProxy /\ [][NextProxy]_vars

InitPath ==
    /\ LocalUnused /\ RedisUnused /\ ProxyUnused /\ FrontUnused
    /\ template \in Templates
    /\ params \in ParamLists
    /\ PathIdle

NextPath ==
    /\ \/ ReplaceStep
       \/ ReplaceReturn
    /\ UNCHANGED <<localVars, localHist, report, redisVars, proxyVars, frontVars>>

SpecPath == InitPath /\ [][NextPath]_vars

InitFront ==
    /\ LocalUnused /\ RedisUnused /\ ProxyUnused /\ PathUnused
    /\ redisHost \in {"", "redis"}
    /\ rateEnabled \in BOOLEAN
    /\ storeUp \in BOOLEAN
    /\ FrontIdle

NextFront ==
    /\ \/ NewRateLimiter
       \/ StoreFlip
       \/ fpc = "idle" /\ \E r \in Requests : Arrive(r)
       \/ \E answer \in BOOLEAN : Middleware(answer)
       \/ AuthMiddleware
       \/ RequireRoles
       \/ RouteHandler
       \/ Respond
    /\ UNCHANGED <<localVars, localHist, report, redisVars, proxyVars, pathVars>>

SpecFront == InitFront /\ [][NextFront]_vars

-----------------------------------------------------------------------------
(* Claims about the local strategy, checked under SpecLocal. *)

-----------------------------------------------------------------------------
(* Claims about the distributed strategy, checked under SpecRedis. *)

\* C3: within one fixed window the allowed calls of one identity, over all
\* tasks sharing the store, never exceed the limit (a call counts in the
\* window in which the store applied its increment).
C3_FixedWindowWithinLimit ==
    \A c \in Clients : allowedNow[c] <= RequestsPerMin

\* C4: over two consecutive fixed windows the allowed calls of one identity
\* never exceed twice the limit.
C4_TwoWindowsWithinTwiceLimit ==
    \A c \in Clients : allowedPrev[c] + allowedNow[c] <= 2 * RequestsPerMin

-----------------------------------------------------------------------------
\* C6: when the timeout branch is taken with nothing sent and the backend
\* call still running, the caller's response is the 504 alone: status 504,
\* no header copied from the backend, no chunk but the 504 body, whatever
\* the forwarding goroutine does afterwards.
C6_TimeoutAnswerIsThe504 ==
    cleanTimeout =>
        /\ \A i \in DOMAIN writer.body : writer.body[i] = "gw504"
        /\ "backend" \notin writer.sentHeader
        /\ Written(writer) => writer.sent = 504

\* C7: the 504 body is written only when nothing has been sent: in every
\* response that holds it, it is the first chunk.
C7_504OnlyOnUnwrittenResponse ==
    \A i \in DOMAIN writer.body : writer.body[i] = "gw504" => i = 1

\* C8: when proxy.ServeHTTP returned a backend response before the timer
\* fired, no 504 body is ever written and the caller gets the backend's
\* status.
C8_BackendStatusUnchanged ==
    servedFirst =>
        /\ \A i \in DOMAIN writer.body : writer.body[i] # "gw504"
        /\ hpc = "returned" => writer.sent = resp.status

\* C9: a service that was never configured, or whose base URL is empty or
\* does not parse, is answered 500, never 502 or 504, and neither the
\* forwarding goroutine nor the timer is started for it.
C9_UnusableServiceIs500 ==
    baseURL \in {"absent", "empty", "unparsable"} =>
        /\ gpc = "none"
        /\ timer = "unarmed"
        /\ writer.sent \notin {502, 504}
        /\ hpc = "returned" => writer.sent = 500

\* the length of the longest run of name characters s starts with
RECURSIVE NameLen(_)
NameLen(s) ==
    IF s # <<>> /\ Head(s) \in NameChars THEN 1 + NameLen(Tail(s)) ELSE 0

Captured(ps, name) == \E i \in DOMAIN ps : ps[i].Key = name
ValueOf(ps, name) == ps[CHOOSE i \in DOMAIN ps : ps[i].Key = name].Value

\* s with every whole placeholder that names a captured parameter replaced
\* by the parameter's value, and nothing else changed
RECURSIVE WholePlaceholders(_, _)
WholePlaceholders(s, ps) ==
    IF s = <<>> THEN <<>>
    ELSE IF Head(s) = ":"
         THEN LET n == NameLen(Tail(s))
                  name == SubSeq(s, 2, n + 1)
                  rest == SubSeq(s, n + 2, Len(s))
              IN  (IF Captured(ps, name) THEN ValueOf(ps, name) ELSE <<":">> \o name)
                  \o WholePlaceholders(rest, ps)
         ELSE <<Head(s)>> \o WholePlaceholders(Tail(s), ps)

\* C10: replacePathParams returns the template with each whole placeholder
\* of a captured name replaced by the value, all else untouched.
C10_WholePlaceholdersReplaced ==
    pathPc = "returned" => path = WholePlaceholders(template, params)

\* the names of the whole placeholders of s
RECURSIVE PlaceholderNames(_)
PlaceholderNames(s) ==
    IF s = <<>> THEN {}
    ELSE IF Head(s) = ":"
         THEN LET n == NameLen(Tail(s)) IN
              {SubSeq(s, 2, n + 1)} \cup PlaceholderNames(SubSeq(s, n + 2, Len(s)))
         ELSE PlaceholderNames(Tail(s))

\* C11: a template none of whose placeholders is named by a captured
\* parameter is returned unchanged by replacePathParams.
C11_UnmatchedTemplateUnchanged ==
    (/\ pathPc = "returned"
     /\ \A name \in PlaceholderNames(template) : ~Captured(params, name))
        => path = template

-----------------------------------------------------------------------------
\* C12: a call that comes a minute or more after the identity's last call
\* is allowed and reports remaining = capacity - 1, whatever was left before.
C12_IdleMinuteRestoresCapacity ==
    report.idle >= Minute =>
        report.allowed /\ report.remaining = RequestsPerMin - 1

C12_Witness ==
    /\ report.idle >= Minute
    /\ report.previous = 0
    /\ report.remaining = RequestsPerMin - 1

\* C13: a call that comes 0 < t < 1 minute after the identity's last call
\* reports at most floor(t x capacity) more than that call reported, and at
\* most capacity.
C13_PartialRefillBounded ==
    (report.idle > 0 /\ report.idle < Minute) =>
        /\ report.remaining - report.previous <= (report.idle * RequestsPerMin) \div Minute
        /\ report.remaining <= RequestsPerMin

\* C14: every bucket's token count is within 0..capacity in every state, and
\* a call lowers it by one exactly when it is allowed.
C14_TokensWithinBounds ==
    /\ \A b \in BucketIds : buckets[b].tokens \in 0..RequestsPerMin
    /\ report.refilled >= 0 =>
          /\ report.allowed <=> report.refilled > 0
          /\ report.left = report.refilled - (IF report.allowed THEN 1 ELSE 0)

C14_Witness ==
    /\ report.allowed
    /\ report.left = 0
    /\ \E u \in Tasks : /\ tpc[u] = "wantBucket"
                        /\ tclient[u] = report.client
                        /\ tlimit[u] = localLimits[report.client]

\* C15: the concurrent calls of one identity that lie inside one window have
\* each incremented the counter once and observe pairwise distinct counts
C15_ConcurrentCountsDistinct ==
    \A t, u \in Tasks :
        (/\ t # u
         /\ rpc[t] = "incremented" /\ rpc[u] = "incremented"
         /\ rclient[t] = rclient[u]
         /\ windowStart[t] = Truncate(clock) /\ windowStart[u] = Truncate(clock)
         /\ incrAge[t] = 0 /\ incrAge[u] = 0)
        => incrVal[t] # incrVal[u]

\* C16: the key of an identity expires at the end of the window in which its
\* count was started: no count is carried over a window boundary
C16_NoCountAcrossBoundary ==
    [][(clock' # clock /\ clock' % Minute = 0)
          => \A c \in Clients : store'[c].count = 0]_vars

\* C17: the request sent to the backend carries X-Forwarded-Host equal to the
\* host of the inbound request and X-Origin-Host equal to the target host
C17_ForwardedHostIsInboundHost ==
    attempts > 0 =>
        /\ outreq.XForwardedHost = request.Host
        /\ outreq.XOriginHost = TargetHost(baseURL)

\* C18: once the handler has returned, the caller-visible request has the
\* path it had before the call
C18_RequestPathRestored ==
    hpc = "returned" => request.Path = InboundPath

\* C19: at most one round trip to the backend is started for a request: one
\* once the forwarding of a known service has run, none for an unknown
\* service, and no further one after a timeout or a transport failure
C19_SingleAttempt ==
    /\ attempts <= 1
    /\ ~HasProxy(version, baseURL) => attempts = 0
    /\ gpc \notin {"none", "roundtrip"} => attempts = 1

C19_Witness ==
    /\ attempts = 1
    /\ resp.kind = "error"
    /\ timer = "fired"
    /\ hpc = "returned"
    /\ gpc = "finished"

\* C20: a round trip that failed before the timer of a positive timeout
\* fired is answered with 502 and the error handler's body, never with 500
\* or 504
C20_TransportFailureIs502 ==
    (errorFirst /\ timeout > 0 /\ hpc = "returned" /\ gpc = "finished") =>
        /\ writer.sent = 502
        /\ writer.body = <<"gw502">>

\* C21: the timeout raced against the backend call is the configured timeout
\* when that is positive and the default of 30 seconds otherwise; it is never
\* zero or negative
C21_RacedTimeoutIsPositive ==
    gpc # "none" =>
        /\ timeout = (IF cfgTimeout > 0 THEN cfgTimeout ELSE DefaultTimeout)
        /\ timeout > 0

\* what the caller has received of the response
Received(w) == <<w.written, w.sent, w.sentHeader, w.body>>

\* C22: when the timer of a positive timeout fired before the backend call
\* ended, the backend call goes on, and no later step of it changes what the
\* caller receives
C22_LateCompletionIgnored ==
    [][(cleanTimeout /\ timeout > 0 /\ hpc' = hpc)
          => Received(writer') = Received(writer)]_vars

-----------------------------------------------------------------------------
(***************************************************************************)
(* ProxyWebUI: the handler calls proxy.ServeHTTP itself; there is no       *)
(* goroutine, no timer and no select.  gpc follows the call, which runs on *)
(* the handler's own thread.                                               *)
(***************************************************************************)

\* the handler up to the call: the lookup of p.proxies["web_ui"], the 500
DispatchWebUI ==
    /\ hpc = "start"
    /\ IF ~HasProxy(version, baseURL)
       THEN /\ writer' = HandlerReturns(Write(WriteHeader(SetHeader(writer, "gateway"), 500), "gw500"))
            /\ hpc' = "returned"
            /\ UNCHANGED gpc
       ELSE /\ gpc' = "roundtrip"
            /\ hpc' = "serving"
            /\ UNCHANGED writer
    /\ UNCHANGED <<reqVars, version, baseURL, cfgTimeout, timeout, resp, togo,
                   done, timer, cleanTimeout, servedFirst>>

\* proxy.ServeHTTP returned: the handler returns
WebUIReturn ==
    /\ hpc = "serving"
    /\ gpc = "served"
    /\ gpc' = "finished"
    /\ hpc' = "returned"
    /\ writer' = HandlerReturns(writer)
    /\ UNCHANGED <<reqVars, version, baseURL, cfgTimeout, timeout, resp, togo,
                   done, timer, cleanTimeout, servedFirst>>

InitWebUI ==
    /\ LocalUnused /\ RedisUnused /\ PathUnused /\ FrontUnused
    /\ version = "struct"
    /\ baseURL \in BaseURLs
    /\ cfgTimeout \in Timeouts
    /\ request \in [Host : Hosts, Path : {InboundPath}]
    /\ finalPath = ""
    /\ ProxyIdle

\* the steps of the gateway itself, as opposed to the backend's answering
WebUISteps ==
    /\ \/ DispatchWebUI
       \/ CopyHeader
       \/ WriteStatus
       \/ \E landed \in BOOLEAN : WriteBody(landed)
       \/ ErrorHandlerHead
       \/ \E landed \in BOOLEAN : ErrorHandlerBody(landed)
       \/ ServeReturn
       \/ WebUIReturn
    /\ UNCHANGED <<localVars, localHist, report, redisVars, pathVars, frontVars>>

WebUIBackend ==
    /\ \E r \in Responses : BackendRespond(r)
    /\ UNCHANGED <<localVars, localHist, report, redisVars, pathVars, frontVars>>

NextWebUI == WebUISteps \/ WebUIBackend

\* the gateway's own steps are taken when they can be; the backend may stay
\* silent for ever
SpecWebUI == InitWebUI /\ [][NextWebUI]_vars /\ WF_vars(WebUISteps)

\* C23: a handler that forwards a request returns even if the backend never
\* responds
C23_HandlerReturns == <>(hpc = "returned")

-----------------------------------------------------------------------------
(* Claims about the front, checked under SpecFront. *)

\* C24: the strategy is the one the single probe of NewRateLimiter chose and
\* never changes: rl.useRedis holds iff that probe reached the store, every
\* request is served by that strategy whatever the store does later, and
\* NewRateLimiter returns no error
C24_StrategyFixedAtConstruction ==
    lpc = "ready" =>
        /\ useRedis = (probed = "up")
        /\ ~newErr
        /\ front.strategy \in {"redis", "local"} =>
              front.strategy = (IF probed = "up" THEN "redis" ELSE "local")

C24_Witness ==
    /\ probed = "up"
    /\ ~storeUp
    /\ front.strategy = "redis"
    /\ front.err

\* C25: a request the limiter denied is answered 429 with the three
\* X-RateLimit headers and Retry-After and no handler after the rate-limit
\* middleware runs for it; the dispatcher runs only for requests the
\* middleware let through
C25_DeniedIsAborted ==
    /\ (front.strategy \in {"redis", "local"} /\ ~front.err /\ ~front.allowed) =>
          /\ front.status = 429
          /\ front.headers = RateLimitHeaders \cup {"Retry-After"}
          /\ ran = {}
          /\ fpc \in {"done", "idle"}
    /\ "dispatcher" \in ran =>
          /\ front.action = "next"
          /\ front.strategy = "off" \/ front.err \/ front.allowed

C25_Witness ==
    /\ front.status = 429
    /\ front.strategy = "local"
    /\ inbound.route = "protected"
    /\ Authenticates(inbound)
    /\ fpc = "done"

\* C30: the identity handed to the limiter is not empty and starts with
\* user: or ip:, and a request that carries a valid token on an authenticated
\* route is keyed by user: and its user id
C30_AuthenticatedKeyedByUser ==
    front.strategy \in {"redis", "local"} =>
        /\ front.clientID # <<>>
        /\ HasPrefix(front.clientID, UserPrefix) \/ HasPrefix(front.clientID, IpPrefix)
        /\ (inbound.route = "protected" /\ Authenticates(inbound)) =>
              front.clientID = UserPrefix \o inbound.user

\* C26: after the refill a call is allowed iff the bucket holds a token; an
\* allowed call takes one token and a denied call leaves the bucket at 0; the
\* call reports the tokens left as remaining and lastRefill + 1 minute as
\* reset time
C26_LocalDecision ==
    report.refilled >= 0 =>
        /\ report.allowed <=> report.refilled > 0
        /\ report.allowed => report.left = report.refilled - 1
        /\ ~report.allowed => report.left = 0
        /\ report.remaining = report.left
        /\ report.resetTime = report.lastRefill + Minute

C26_Witness ==
    /\ report.refilled = 0
    /\ ~report.allowed
    /\ report.remaining = 0
    /\ report.lastRefill < now

\* C27: a call of the distributed strategy that got count from the increment
\* returns allowed iff count <= limit, remaining = max(0, limit - count) and
\* as reset time the start of its minute window plus one minute; a denied
\* call has incremented the counter as well
C27_DistributedResult ==
    (outcome.action # "none" /\ ~outcome.err) =>
        LET r == outcome.result IN
        /\ r.count >= 1
        /\ outcome.allowed <=> r.count <= RequestsPerMin
        /\ r.remaining = Max(0, RequestsPerMin - r.count)
        /\ r.windowStart % Minute = 0
        /\ r.resetTime = r.windowStart + Minute
        /\ ~outcome.allowed => r.count > RequestsPerMin

C27_Witness ==
    /\ outcome.action = "abort"
    /\ outcome.result.count = RequestsPerMin + 1
    /\ outcome.result.remaining = 0
    /\ store[outcome.client].count = RequestsPerMin + 1

-----------------------------------------------------------------------------
(***************************************************************************)
(* C28: local strategy, the first calls of an identity.  As long as no    *)
(* call of an identity has finished (lastCall < 0), the map has a bucket   *)
(* for it only if one of its calls has passed the lookup, every call of    *)
(* the identity that has passed the lookup holds the bucket the map has    *)
(* for it, and that bucket still has tokens = capacity: the first calls,   *)
(* however they interleave, create one bucket and all spend from it.       *)
(***************************************************************************)
PastLookup(t, c) == tclient[t] = c /\ tpc[t] \in {"wantBucket", "inBucket"}

-----------------------------------------------------------------------------
(***************************************************************************)
(* C29: the reaper.  Ages are taken against the clock the pass read when   *)
(* it started (cleanupNow).  A map entry disappears only in a visit of a   *)
(* reaper pass and only if its bucket's lastRefill is more than ten        *)
(* minutes old; a visit of such a bucket removes it; a visit of any other  *)
(* bucket keeps the entry and leaves the bucket's tokens and lastRefill as *)
(* they were; and when the pass ends no bucket of the map is more than ten *)
(* minutes old.                                                            *)
(***************************************************************************)
PassAge(c) == cleanupNow - buckets[localLimits[c]].lastRefill
Visited(c) == cleanupPc = "scan" /\ c \in cleanupTodo /\ c \notin cleanupTodo'

C29_ReaperRemovesOnlyStale ==
    [][\A c \in Clients :
          /\ (localLimits[c] # 0 /\ localLimits'[c] = 0) =>
                 Visited(c) /\ PassAge(c) > 10 * Minute
          /\ Visited(c) =>
                 IF PassAge(c) > 10 * Minute
                 THEN localLimits'[c] = 0
                 ELSE /\ localLimits'[c] = localLimits[c]
                      /\ buckets'[localLimits[c]] = buckets[localLimits[c]]
          /\ (cleanupPc = "scan" /\ cleanupPc' = "idle" /\ localLimits[c] # 0) =>
                 PassAge(c) <= 10 * Minute]_vars

\* a pass has removed the bucket of an identity that had made calls, and is
\* at its end
C29_Witness ==
    \E c \in Clients :
        /\ cleanupPc = "scan"
        /\ cleanupTodo = {}
        /\ lastCall[c] >= 0
        /\ localLimits[c] = 0
        /\ \A t \in Tasks : tpc[t] = "idle"

-----------------------------------------------------------------------------
(***************************************************************************)
(* C31: a request to /health, /health/ready, /health/live or               *)
(* /api/v1/public/status is answered 200 with the handler's status (and,   *)
(* for Status, service and version), whatever the state of the limiter and *)
(* of the store.                                                           *)
(***************************************************************************)
C31_HealthAlwaysAnswers ==
    (fpc = "done" /\ inbound.route \in HealthRoutes) =>
        /\ front.status = 200
        /\ front.body = HealthBody(Handler(inbound.route))

-----------------------------------------------------------------------------
(***************************************************************************)
(* C38: for a request without accepted credentials, the identity the       *)
(* limiter is asked about is the one it would be asked about had the same  *)
(* request, from the same peer, carried any other X-Forwarded-For value    *)
(* or none.                                                                *)
(***************************************************************************)
C38_IdentityIgnoresForwardedFor ==
    (front.strategy \in {"redis", "local"} /\ ~Authenticates(inbound)) =>
        \A x \in Addrs \cup {<<>>} :
            front.clientID = getClientID(NoUser, [inbound EXCEPT !.xff = x])

-----------------------------------------------------------------------------
(***************************************************************************)
(* C39: on a route behind AuthMiddleware, what comes after AuthMiddleware  *)
(* (RequireRoles, the route's handler) runs only for a request whose       *)
(* Authorization header is the word Bearer, a space and a token that       *)
(* validates; any other request that reaches AuthMiddleware is answered    *)
(* 401 and nothing after AuthMiddleware runs.  The code compares the word  *)
(* ignoring letter case (C39_BearerAnyCasePasses); with the word exactly   *)
(* as written the statement is C39_OnlyExactBearerPasses.                  *)
(***************************************************************************)
PassedAuth ==
    /\ UsesAuth(inbound.route)
    /\ "auth" \in ran
    /\ fpc \in {"roles", "handler"} \/ ran # {"auth"}
RefusedByAuth == front.status = 401 /\ fpc = "done" /\ ran = {"auth"}
Carries(schemes) ==
    /\ \E s \in schemes : inbound.auth = s \o <<" ">> \o GoodToken
    /\ inbound.user # NoUser

-----------------------------------------------------------------------------
(***************************************************************************)
(* C40: RequireRoles(R) lets a request through iff claims are stored and   *)
(* their roles include a role of R; it answers 401 without stored claims   *)
(* and 403 with claims that hold no role of R, and then nothing after it   *)
(* runs.  On the admin routes, which put it behind AuthMiddleware, the     *)
(* handler runs only for a request with an accepted token whose roles      *)
(* include a required one.                                                 *)
(***************************************************************************)
Holds(have, required) == \E role \in required : role \in have
AdminRoleSets == {RequiredRoles(route) : route \in {"admin", "adminMap"}}

C40_RolesGate ==
    /\ \A cl \in Users \cup {NoUser}, have \in RoleSets, required \in AdminRoleSets :
          /\ RolesDecision(cl, have, required) = 0 <=>
                 (cl # NoUser /\ Holds(have, required))
          /\ cl = NoUser => RolesDecision(cl, have, required) = 401
          /\ (cl # NoUser /\ ~Holds(have, required)) =>
                 RolesDecision(cl, have, required) = 403
    /\ RequiredRoles(inbound.route) # NoRoles =>
          /\ Handler(inbound.route) \in ran =>
                 /\ Authenticates(inbound)
                 /\ Holds(inbound.roles, RequiredRoles(inbound.route))
          /\ "roles" \in ran =>
                 IF claims # NoUser /\ Holds(inbound.roles, RequiredRoles(inbound.route))
                 THEN /\ fpc \in {"handler", "done"}
                      /\ fpc = "done" => Handler(inbound.route) \in ran
                      /\ front.status \notin {401, 403}
                 ELSE /\ fpc = "done"
                      /\ front.status = (IF claims = NoUser THEN 401 ELSE 403)
                      /\ ran = {"auth", "roles"}

\* a token holding system_admin alone has reached /api/v1/admin/users
C40_Witness ==
    /\ inbound.route = "admin"
    /\ inbound.roles = {"system_admin"}
    /\ ran = {"auth", "roles", "dispatcher"}
    /\ fpc = "done"

-----------------------------------------------------------------------------
(***************************************************************************)
(* C32: from its map lookup to its update, the bucket an allowLocal call   *)
(* holds is the bucket the map has for the call's identity.                *)
(***************************************************************************)
C32_UpdatedBucketIsMapEntry ==
    \A t \in Tasks :
        tpc[t] \in {"wantBucket", "inBucket"} =>
            tlimit[t] = localLimits[tclient[t]]

-----------------------------------------------------------------------------
(***************************************************************************)
(* The two locks of the local strategy, with nothing recorded of the run.  *)
(* A goroutine that can run is run, and sync.Mutex hands a lock to a       *)
(* waiter that has waited long enough (starvation mode), so a step that    *)
(* needs a lock is taken if the lock is free again and again.              *)
(***************************************************************************)
Others == UNCHANGED <<redisVars, proxyVars, pathVars, frontVars>>
TaskStep(t) == (Lookup(t, "none") \/ LockBucket(t) \/ Update(t, "none")) /\ Others
ReaperStep == ((\E c \in Clients : CleanupVisit(c)) \/ CleanupUnlock) /\ Others

NextLock == NextWatched("none")

SpecLock == InitLocal /\ [][NextLock]_vars

SpecLockFair ==
    /\ SpecLock
    /\ \A t \in Tasks : SF_vars(TaskStep(t))
    /\ SF_vars(ReaperStep)

\* under SpecLockFair: a call that has entered allowLocal returns, a pass
\* that has begun ends, and every lock that is held is released
NoLockWaitsForever ==
    /\ \A t \in Tasks : (tpc[t] # "idle") ~> (tpc[t] = "idle")
    /\ (cleanupPc = "scan") ~> (cleanupPc = "idle")
    /\ (mu # <<>>) ~> (mu = <<>>)
    /\ \A b \in BucketIds : (bmu[b] # <<>>) ~> (bmu[b] = <<>>)

(***************************************************************************)
(* C33: no circular wait.  Whoever holds a lock can take its next step     *)
(* without another lock, or waits only for a holder that can: the map lock *)
(* is held by a call at its lookup or by a reaper pass, a bucket lock by a *)
(* call at its update, no call holds both, a call at its lookup or update  *)
(* is never blocked, and a pass that cannot visit a bucket waits for a     *)
(* call at its update.  So no state has a task that can never get the      *)
(* lock it waits for.                                                      *)
(***************************************************************************)
HoldsBucket(t, b) == bmu[b] = <<t>> /\ tpc[t] = "inBucket" /\ tlimit[t] = b

C33_NoCircularWait ==
    /\ mu # <<>> =>
          \/ \E t \in Tasks : mu = <<t>> /\ tpc[t] = "inMap"
          \/ mu = <<Reaper>> /\ cleanupPc = "scan"
    /\ \A b \in BucketIds :
          bmu[b] # <<>> => \E t \in Tasks : HoldsBucket(t, b) /\ mu # <<t>>
    /\ \A t \in Tasks :
          /\ tpc[t] = "inMap" => ENABLED Lookup(t, "none")
          /\ tpc[t] = "inBucket" => ENABLED Update(t, "none")
          /\ tpc[t] = "wantBucket" =>
                 \/ ENABLED LockBucket(t)
                 \/ \E u \in Tasks \ {t} : HoldsBucket(u, tlimit[t])
    /\ cleanupPc = "scan" =>
          \/ ENABLED ReaperStep
          \/ \E c \in cleanupTodo : \E u \in Tasks : HoldsBucket(u, localLimits[c])

\* a call waits for the bucket lock another call holds while a reaper pass,
\* holding the map lock, waits for the same bucket
C33_Witness ==
    \E t, u \in Tasks :
        /\ t # u
        /\ tpc[t] = "wantBucket"
        /\ HoldsBucket(u, tlimit[t])
        /\ cleanupPc = "scan"
        /\ \E c \in cleanupTodo : localLimits[c] = tlimit[t]

-----------------------------------------------------------------------------
(* The local strategy, with the age of each identity's last call recorded. *)
NextAge == NextWatched("ages")

SpecAge == InitLocal /\ [][NextAge]_vars

(***************************************************************************)
(* C34: the update of an allowLocal call leaves its bucket's lastRefill    *)
(* less than a minute before the call's now; and an entry leaves the map   *)
(* only if the last finished call of its identity is more than nine        *)
(* minutes old.                                                            *)
(***************************************************************************)
UpdateBy(t) == tpc[t] = "inBucket" /\ tpc'[t] = "idle"

-----------------------------------------------------------------------------
(* The local strategy, with what each call did to the map recorded. *)
NextFrame == NextWatched("frames")

SpecFrame == InitLocal /\ [][NextFrame]_vars

(***************************************************************************)
(* C35: a call that returns allowed = false found its bucket with no       *)
(* tokens and leaves it so, with the lastRefill it had, and its update     *)
(* does not touch the map; its lookup changed the map only by adding its   *)
(* identity's bucket, when the map had none (C35_DeniedLeavesBucket).      *)
(* Without the exception, that the call has not changed the map at all:    *)
(* C35_DeniedChangesNothing.                                               *)
(***************************************************************************)
LookupBy(t) == tpc[t] = "inMap" /\ tpc'[t] = "wantBucket"
Denied(t) == UpdateBy(t) /\ report'.refilled >= 0 /\ ~report'.allowed
BucketKept(t) ==
    /\ buckets[tlimit[t]].tokens = 0
    /\ report'.left = 0
    /\ report'.lastRefill = buckets[tlimit[t]].lastRefill
    /\ tlimit[t] \in Referenced(localLimits', tlimit') =>
           buckets'[tlimit[t]] = buckets[tlimit[t]]

C35_DeniedChangesNothing ==
    [][\A t \in Tasks :
          Denied(t) =>
              /\ BucketKept(t)
              /\ localLimits' = localLimits
              /\ ~creator[t]]_vars

C35_DeniedLeavesBucket ==
    [][\A t \in Tasks :
          /\ Denied(t) =>
                /\ BucketKept(t)
                /\ localLimits' = localLimits
          /\ LookupBy(t) =>
                \/ localLimits' = localLimits /\ ~creator'[t]
                \/ /\ localLimits[tclient[t]] = 0
                   /\ localLimits' = [localLimits EXCEPT ![tclient[t]] = tlimit'[t]]
                   /\ creator'[t]]_vars

\* the call that created its identity's bucket has returned allowed = false
C35_Witness ==
    \E t \in Tasks :
        /\ tpc[t] = "idle"
        /\ \A u \in Tasks \ {t} : tpc[u] # "idle"
        /\ creator[t]
        /\ report.refilled = 0
        /\ ~report.allowed

-----------------------------------------------------------------------------
(***************************************************************************)
(* Two identities.  rl.allow runs the strategy NewRateLimiter chose; the   *)
(* calls are for either identity.  The local strategy is followed while    *)
(* no bucket in use is older than PairAge, the distributed one up to       *)
(* PairClock.  No bucket gets old enough for the reaper to remove it, and  *)
(* the reaper's passes are left out.                                       *)
(***************************************************************************)
Pair == {"a", "b"}
PairBuckets == 1..(Cardinality(Pair) + NumTasks)
PairAge == 1       \* ticks a bucket in use may age
PairClock == 1     \* ticks of the wall clock

InitPair ==
    /\ localLimits = [c \in Pair |-> 0]
    /\ buckets = [b \in PairBuckets |-> NullBucket]
    /\ mu = <<>>
    /\ bmu = [b \in PairBuckets |-> <<>>]
    /\ tpc = [t \in Tasks |-> "idle"]
    /\ tclient = [t \in Tasks |-> "a"]
    /\ tlimit = [t \in Tasks |-> 0]
    /\ tticks = [t \in Tasks |-> 0]
    /\ cleanupPc = "idle"
    /\ cleanupNow = now
    /\ cleanupTodo = {}
    /\ admits = [c \in Pair |-> NoWindow]
    /\ spent = [b \in PairBuckets |-> NoWindow]
    /\ firstBorn = [c \in Pair |-> 0 - 1]
    /\ firstMinute = [c \in Pair |-> NoCalls]
    /\ lastCall = [c \in Pair |-> 0 - 1]
    /\ lastRemaining = [c \in Pair |-> 0]
    /\ creator = [t \in Tasks |-> FALSE]
    /\ report = NoReport
    /\ clock = 0
    /\ store = [c \in Pair |-> NoKey]
    /\ rpc = [t \in Tasks |-> "idle"]
    /\ rclient = [t \in Tasks |-> "a"]
    /\ windowStart = [t \in Tasks |-> 0]
    /\ incrVal = [t \in Tasks |-> 0]
    /\ incrAge = [t \in Tasks |-> 0]
    /\ outcome = NoOutcome
    /\ allowedNow = [c \in Pair |-> 0]
    /\ allowedPrev = [c \in Pair |-> 0]
    /\ ProxyUnused /\ PathUnused
    /\ redisHost \in {"", "redis"}
    /\ rateEnabled = TRUE
    /\ storeUp = TRUE
    /\ lpc = "ready"
    /\ useRedis = SelectRedis(redisHost, storeUp)
    /\ probed = (IF redisHost = "" THEN "none" ELSE "up")
    /\ newErr = FALSE
    /\ fpc = "idle"
    /\ inbound = NoInbound
    /\ claims = NoUser
    /\ front = NoFront
    /\ ran = {}

InUse == Referenced(localLimits, tlimit) \ {0}

\* rl.allow: allowRedis if rl.useRedis, else allowLocal
NextPair ==
    \/ /\ ~useRedis
       /\ \/ \E t \in Tasks, c \in Pair : Call(t, c)
          \/ \E t \in Tasks : Lookup(t, "none")
          \/ \E t \in Tasks : LockBucket(t)
          \/ \E t \in Tasks : Update(t, "none")
          \/ /\ \A b \in InUse : now - buckets[b].lastRefill < PairAge
             /\ Tick("none")
       /\ UNCHANGED <<redisVars, proxyVars, pathVars, frontVars>>
    \/ /\ useRedis
       /\ \/ \E t \in Tasks, c \in Pair : RedisCall(t, c)
          \/ \E t \in Tasks : RedisIncr(t)
          \/ \E t \in Tasks : RedisExpireAt(t)
          \/ \E t \in Tasks, applied \in BOOLEAN : RedisExecError(t, applied)
          \/ clock < PairClock /\ RedisTick
       /\ UNCHANGED <<localVars, localHist, report, proxyVars, pathVars, frontVars>>

SpecPair == InitPair /\ [][NextPair]_vars

(***************************************************************************)
(* C36: a step of a call for an identity leaves alone what the limiter     *)
(* holds for every other identity: under the local strategy the other      *)
(* identities' map entries and the tokens and lastRefill of their buckets  *)
(* (those in the map and those their own calls hold), under the            *)
(* distributed one the count and expiry of every other key.                *)
(***************************************************************************)
LocalStepOf(t) == tpc'[t] # tpc[t]
RedisStepOf(t) == rpc'[t] # rpc[t]
CallerOf(t) == IF tpc[t] = "idle" THEN tclient'[t] ELSE tclient[t]
RedisCallerOf(t) == IF rpc[t] = "idle" THEN rclient'[t] ELSE rclient[t]

C36_OtherIdentitiesUntouched ==
    [][\A t \in Tasks :
          /\ LocalStepOf(t) =>
                \A c \in Pair \ {CallerOf(t)} :
                    /\ localLimits'[c] = localLimits[c]
                    /\ localLimits[c] # 0 =>
                           buckets'[localLimits[c]] = buckets[localLimits[c]]
                    /\ \A u \in Tasks :
                           (tclient[u] = c /\ tlimit[u] # 0) =>
                               buckets'[tlimit[u]] = buckets[tlimit[u]]
          /\ RedisStepOf(t) =>
                \A c \in Pair \ {RedisCallerOf(t)} : store'[c] = store[c]]_vars

\* local strategy: b has been served once while a's bucket is spent
C36_Witness ==
    /\ ~useRedis
    /\ localLimits["a"] # 0
    /\ buckets[localLimits["a"]].tokens = 0
    /\ localLimits["b"] # 0
    /\ buckets[localLimits["b"]].tokens = RequestsPerMin - 1

\* distributed strategy: a's key counts one call, b's key a full window
PairServedDistributed ==
    /\ useRedis
    /\ store["a"].count = 1
    /\ store["b"].count = RequestsPerMin

(***************************************************************************)
(* C37: the forwarding goroutine's send on done never blocks: whenever     *)
(* proxy.ServeHTTP has returned and the goroutine stands at done <- true,  *)
(* the send can be taken, wherever the handler stands (waiting in the      *)
(* select, in the timeout branch, or returned), so the goroutine ends.     *)
(***************************************************************************)
C37_DoneSendNeverBlocks == gpc = "served" => ENABLED DoneSend

\* the goroutine has ended after the handler took the timeout branch, and
\* its value stays in the channel with nobody receiving
C37_Witness ==
    /\ gpc = "finished"
    /\ timer = "fired"
    /\ hpc \in {"timeoutBranch", "returned"}
    /\ done = DoneCap
====
